---- MODULE Spec2Model ----
(***************************************************************************)
(* Model of the embedding/similarity subsystem of depth-knowledge-forge:   *)
(* src/src/services/EmbeddingService.ts (the EmbeddingService singleton).  *)
(*                                                                         *)
(* Asynchronous calls are modelled at the granularity of JavaScript's      *)
(* run-to-completion segments: one action is the code that runs between    *)
(* two awaits of one call.  Numbers that are floats in the program are     *)
(* modelled exactly: embedding components as integers in units of 1/Scale, *)
(* cosine similarities as the pair (dot product, product of squared norms).*)
(***************************************************************************)
EXTENDS Integers, Sequences, FiniteSets, TLC

\* ------------------------------------------------------------------ bounds
MaxCalls == 2       \* calls made on the singleton in one run
MaxTexts == 2       \* texts submitted for embedding in one run, over all calls
Scale == 4          \* resolution of a float: 1.0 is Scale
ModelDim == 3       \* dimension of the backend model's output
MaxDocs == 3        \* longest document list given to findSimilarDocuments
MaxLimit == 3       \* limits range over -MaxLimit..MaxLimit
MaxChars == 5       \* longest sampled text given to preprocessText and chunkText
MaxChunkSize == 3   \* chunkSize and overlap range over 0..MaxChunkSize
MaxRuns == 2        \* upload / regenerate handler runs of the DocumentManager
MaxFiles == 2       \* files selected in all uploads together

\* ------------------------------------------------------- program constants
FallbackDim == 384  \* new Array(384)
TextLimit == 4000   \* cleaned.slice(0, 4000)
DefaultLimit == 5   \* limit: number = 5

VARIABLES
    isInitialized,  \* EmbeddingServiceClass.isInitialized
    extractor,      \* EmbeddingServiceClass.extractor: null or the pipeline acquired
    calls,          \* the asynchronous calls made on the singleton, by call id
    acquired,       \* history: every assignment to extractor, in order
    find,           \* an application of findSimilarDocuments: input and result
    chunk,          \* an application of chunkText: input, loop state and result
    prep,           \* an application of preprocessText: input and result
    manager         \* the DocumentManager component and its parent's documents

vars == <<isInitialized, extractor, calls, acquired, find, chunk, prep, manager>>

CallIds == 1..MaxCalls

\* ---------------------------------------------------------- JS primitives
Min(a, b) == IF a < b THEN a ELSE b
Max(a, b) == IF a > b THEN a ELSE b

\* Array.prototype.slice(start, end) / String.prototype.slice on a sequence
\* (0-based, end exclusive, negative indices count from the end).
JsSlice(s, start, end) ==
    LET n == Len(s)
        from == IF start < 0 THEN Max(n + start, 0) ELSE Min(start, n)
        to == IF end < 0 THEN Max(n + end, 0) ELSE Min(end, n)
    IN  IF to <= from THEN <<>> ELSE SubSeq(s, from + 1, to)

\* ------------------------------------------------------------- characters
\* A string is a sequence of one-character strings.
Whitespace == {" ", "\t", "\n"}
\* \w: [A-Za-z0-9_]
WordChars ==
    {"a", "b", "c", "d", "e", "f", "g", "h", "i", "j", "k", "l", "m",
     "n", "o", "p", "q", "r", "s", "t", "u", "v", "w", "x", "y", "z",
     "A", "B", "C", "D", "E", "F", "G", "H", "I", "J", "K", "L", "M",
     "N", "O", "P", "Q", "R", "S", "T", "U", "V", "W", "X", "Y", "Z",
     "0", "1", "2", "3", "4", "5", "6", "7", "8", "9", "_"}
Punctuation == {".", ",", "!", "?", "-"}

IsSpace(ch) == ch \in Whitespace
IsAllowed(ch) == ch \in WordChars \cup Whitespace \cup Punctuation

\* text.replace(/\s+/g, ' ')
RECURSIVE NormalizeWhitespace(_)
NormalizeWhitespace(s) ==
    IF s = <<>> THEN <<>>
    ELSE IF IsSpace(Head(s))
         THEN IF Len(s) > 1 /\ IsSpace(s[2])
              THEN NormalizeWhitespace(Tail(s))
              ELSE <<" ">> \o NormalizeWhitespace(Tail(s))
         ELSE <<Head(s)>> \o NormalizeWhitespace(Tail(s))

\* .replace(/[^\w\s.,!?-]/g, '')
RemoveSpecial(s) == SelectSeq(s, IsAllowed)

\* .trim()
RECURSIVE TrimStart(_)
TrimStart(s) ==
    IF s # <<>> /\ IsSpace(Head(s)) THEN TrimStart(Tail(s)) ELSE s

RECURSIVE TrimEnd(_)
TrimEnd(s) ==
    IF s # <<>> /\ IsSpace(s[Len(s)]) THEN TrimEnd(SubSeq(s, 1, Len(s) - 1)) ELSE s

\* Mutant: .trimStart()
TrimStartOnly(s) == TrimStart(s)

Trim(s) == TrimEnd(TrimStart(s))

preprocessText(text) ==
    LET cleaned == Trim(RemoveSpecial(NormalizeWhitespace(text)))
    IN  JsSlice(cleaned, 0, TextLimit)

\* ------------------------------------------------------------ the backend
\* An embedding held by a call is recorded by where its numbers came from:
\* the backend's output for a cleaned text, or the catch block's dummy vector
\* for one run of Math.random draws.  Components gives the number[] itself.
ModelEmbedding(cleanText) == [source |-> "model", text |-> cleanText]
DummyEmbedding(seed) == [source |-> "dummy", seed |-> seed]

\* What the feature-extraction pipeline returns for a cleaned text: a
\* normalized vector of the model's dimension, a function of the text.
ExtractorOutput(cleanText) ==
    [i \in 1..ModelDim |-> IF i = 1 + (Len(cleanText) % ModelDim) THEN Scale ELSE 0]

\* Math.random() lies in [0, 1): k / Scale for a k in 0..Scale-1.  The i-th
\* draw of one fallback vector is a function of the sampled seed.
MathRandom(seed, i) == (seed * i) % Scale

\* Mutant: the draw is scaled but not shifted (Math.random() * 2).
FallbackEmbeddingUnshifted(seed) ==
    [i \in 1..FallbackDim |-> MathRandom(seed, i) * 2]

\* new Array(384).fill(0).map(() => Math.random() * 2 - 1), in units of 1/Scale
FallbackEmbedding(seed) ==
    [i \in 1..FallbackDim |-> MathRandom(seed, i) * 2 - Scale]

\* The sampled outcomes of a run of Math.random draws.
Seeds == {0, 1}

FallbackTable == [seed \in Seeds |-> FallbackEmbedding(seed)]

\* The number[] a caller receives for an embedding.
Components(e) ==
    IF e.source = "dummy" THEN FallbackTable[e.seed] ELSE ExtractorOutput(e.text)

\* Sampled input texts: generateEmbedding is given either text, and
\* generateEmbeddings a list of up to n texts that alternates the two.
PlainText == <<"a">>
MessyText == <<" ", "a", "#", " ", " ", "b">>
SampleTexts == {PlainText, MessyText}
SampleBatch(n) == [i \in 1..n |-> IF i % 2 = 1 THEN PlainText ELSE MessyText]
BatchInputs(n) == {SampleBatch(k) : k \in 0..n}

RECURSIVE SeqsUpTo(_, _)
SeqsUpTo(S, n) ==
    IF n = 0 THEN {<<>>}
    ELSE LET shorter == SeqsUpTo(S, n - 1)
         IN  shorter \cup {Append(s, x) : s \in {t \in shorter : Len(t) = n - 1}, x \in S}

\* ------------------------------------------------------------------ calls
\* pc of a call: "idle" (not made yet), "webgpu" / "cpu" (suspended in
\* initialize on the accelerated / CPU pipeline acquisition), "ready"
\* (initialize has returned, the caller's continuation has not run yet),
\* "extract" (suspended on the backend feature-extraction call), "done".
\* History kept with a call: tried (the pipeline acquisitions it made and
\* how each settled), started (backend calls it has made), returns (what each
\* generateEmbedding it ran returned, and how its backend call settled) and
\* seen (isInitialized, and whether an initialization had failed, when the
\* call was made).
IdleCall ==
    [kind |-> "none", pc |-> "idle", texts |-> <<>>, embeddings |-> <<>>,
     started |-> 0, returns |-> <<>>, tried |-> <<>>,
     seen |-> [initialized |-> FALSE, failed |-> FALSE],
     outcome |-> "pending", value |-> <<>>]

\* The call record as a call of `kind` on `texts` is made.
MakeCall(r, kind, texts) ==
    [r EXCEPT !.kind = kind, !.texts = texts,
              !.seen = [initialized |-> isInitialized,
                        failed |-> \E d \in CallIds : calls[d].outcome = "rejected"]]

NoFind == [state |-> "off"]
NoChunk == [state |-> "off"]
NoPrep == [state |-> "off"]
NoManager == [state |-> "off"]


\* private extractor: any = null
NullExtractor == [device |-> "none", by |-> 0]

\* The service before any call, as every specification starts it.
ServiceInit ==
    /\ isInitialized = FALSE
    /\ extractor = NullExtractor
    /\ calls = [c \in CallIds |-> IdleCall]
    /\ acquired = <<>>

Init ==
    /\ ServiceInit
    /\ find = NoFind
    /\ chunk = NoChunk
    /\ prep = NoPrep
    /\ manager = NoManager

\* Texts that may still be submitted in this run.
TextsLeft ==
    LET RECURSIVE Submitted(_)
        Submitted(c) == IF c = 0 THEN 0 ELSE Len(calls[c].texts) + Submitted(c - 1)
    IN  MaxTexts - Submitted(MaxCalls)

\* Backend feature-extraction calls in flight.
InFlight == {c \in CallIds : calls[c].pc = "extract"}

\* Mutant: initialize without its isInitialized guard.
EnterInitializeUnguarded(r) == [r EXCEPT !.pc = "webgpu"]

\* initialize, from its call to its first await (or its immediate return).
EnterInitialize(r) ==
    IF isInitialized
    THEN [r EXCEPT !.pc = "done", !.outcome = "resolved"]
    ELSE [r EXCEPT !.pc = "webgpu"]

\* generateEmbedding, from its call to its first await: the lazy initialize
\* when the backend is not initialized, the backend call otherwise.
EnterGenerateEmbedding(r) ==
    IF ~isInitialized
    THEN EnterInitialize(r)
    ELSE [r EXCEPT !.pc = "extract", !.started = @ + 1]

\* Mutant: the loop does not await, the remaining backend calls start at once.
EnterLoopUnawaited(r) ==
    IF Len(r.embeddings) = Len(r.texts)
    THEN [r EXCEPT !.pc = "done", !.outcome = "resolved", !.value = r.embeddings]
    ELSE [r EXCEPT !.pc = "extract", !.started = Len(r.texts)]

\* The for-of loop of generateEmbeddings: the next inner generateEmbedding
\* call, or the return of the collected embeddings.
EnterLoop(r) ==
    IF Len(r.embeddings) = Len(r.texts)
    THEN [r EXCEPT !.pc = "done", !.outcome = "resolved", !.value = r.embeddings]
    ELSE EnterGenerateEmbedding(r)

\* Mutant: embeddings.unshift(embedding)
UnshiftEmbedding(embeddings, embedding) == <<embedding>> \o embeddings

\* embeddings.push(embedding)
PushEmbedding(embeddings, embedding) == Append(embeddings, embedding)

\* generateEmbedding returns `embedding` (from the backend or the fallback).
ReturnEmbedding(r, embedding, ok) ==
    LET text == r.texts[Len(r.returns) + 1]
        logged == [r EXCEPT !.returns =
                      Append(@, [text |-> text, embedding |-> embedding, ok |-> ok])]
    IN  IF r.kind = "generateEmbedding"
        THEN [logged EXCEPT !.pc = "done", !.outcome = "resolved", !.value = embedding]
        ELSE EnterLoop([logged EXCEPT !.embeddings = PushEmbedding(@, embedding)])

CallInitialize(c) ==
    /\ calls[c].pc = "idle"
    /\ \A d \in CallIds : d < c => calls[d].pc # "idle"
    /\ calls' = [calls EXCEPT ![c] = EnterInitialize(MakeCall(@, "initialize", <<>>))]
    /\ UNCHANGED <<isInitialized, extractor, acquired, find, chunk, prep, manager>>

CallGenerateEmbedding(c) ==
    /\ calls[c].pc = "idle"
    /\ \A d \in CallIds : d < c => calls[d].pc # "idle"
    /\ TextsLeft >= 1
    /\ \E text \in SampleTexts :
         calls' = [calls EXCEPT ![c] = EnterGenerateEmbedding(
                      MakeCall(@, "generateEmbedding", <<text>>))]
    /\ UNCHANGED <<isInitialized, extractor, acquired, find, chunk, prep, manager>>

CallGenerateEmbeddings(c) ==
    /\ calls[c].pc = "idle"
    /\ \A d \in CallIds : d < c => calls[d].pc # "idle"
    /\ \E texts \in BatchInputs(TextsLeft) :
         LET r == MakeCall(calls[c], "generateEmbeddings", texts)
         IN  calls' = [calls EXCEPT ![c] =
                          IF ~isInitialized THEN EnterInitialize(r) ELSE EnterLoop(r)]
    /\ UNCHANGED <<isInitialized, extractor, acquired, find, chunk, prep, manager>>

\* A pipeline(...) promise fulfils: the assignment to this.extractor and
\* this.isInitialized = true run in the same segment.
AcquireBackend(c, device) ==
    /\ extractor' = [device |-> device, by |-> c]
    /\ isInitialized' = TRUE
    /\ acquired' = Append(acquired, [by |-> c, device |-> device, wasInitialized |-> isInitialized])
    /\ calls' = [calls EXCEPT ![c] =
                    IF @.kind = "initialize"
                    THEN [@ EXCEPT !.pc = "done", !.outcome = "resolved",
                                   !.tried = Append(@, [device |-> device, ok |-> TRUE])]
                    ELSE [@ EXCEPT !.pc = "ready",
                                   !.tried = Append(@, [device |-> device, ok |-> TRUE])]]
    /\ UNCHANGED <<find, chunk, prep, manager>>

WebgpuResolves(c) ==
    /\ calls[c].pc = "webgpu"
    /\ AcquireBackend(c, "webgpu")

\* Mutant: no CPU fallback, the accelerated failure is thrown.
WebgpuRejectsNoFallback(c) ==
    /\ calls[c].pc = "webgpu"
    /\ calls' = [calls EXCEPT ![c] =
                    [@ EXCEPT !.pc = "done", !.outcome = "rejected",
                              !.tried = Append(@, [device |-> "webgpu", ok |-> FALSE])]]
    /\ UNCHANGED <<isInitialized, extractor, acquired, find, chunk, prep, manager>>

\* The accelerated acquisition rejects: the catch block starts the CPU one.
WebgpuRejects(c) ==
    /\ calls[c].pc = "webgpu"
    /\ calls' = [calls EXCEPT ![c] =
                    [@ EXCEPT !.pc = "cpu",
                              !.tried = Append(@, [device |-> "webgpu", ok |-> FALSE])]]
    /\ UNCHANGED <<isInitialized, extractor, acquired, find, chunk, prep, manager>>

CpuResolves(c) ==
    /\ calls[c].pc = "cpu"
    /\ AcquireBackend(c, "cpu")

\* Mutant: the await of initialize stands inside generateEmbedding's try
\* block, so a failed initialization ends in the dummy embedding.
CpuRejectsSwallowed(c) ==
    /\ calls[c].pc = "cpu"
    /\ \E seed \in Seeds :
         calls' = [calls EXCEPT ![c] =
                      IF @.kind = "generateEmbedding"
                      THEN [@ EXCEPT !.pc = "done", !.outcome = "resolved",
                                     !.value = DummyEmbedding(seed),
                                     !.tried = Append(@, [device |-> "cpu", ok |-> FALSE])]
                      ELSE [@ EXCEPT !.pc = "done", !.outcome = "rejected",
                                     !.tried = Append(@, [device |-> "cpu", ok |-> FALSE])]]
    /\ UNCHANGED <<isInitialized, extractor, acquired, find, chunk, prep, manager>>

\* Mutant: isInitialized is set although both acquisitions failed.
CpuRejectsInitialized(c) ==
    /\ calls[c].pc = "cpu"
    /\ isInitialized' = TRUE
    /\ calls' = [calls EXCEPT ![c] =
                    [@ EXCEPT !.pc = "done", !.outcome = "rejected",
                              !.tried = Append(@, [device |-> "cpu", ok |-> FALSE])]]
    /\ UNCHANGED <<extractor, acquired, find, chunk, prep, manager>>

\* The CPU acquisition rejects too: initialize throws, and the await of
\* initialize in generateEmbedding / generateEmbeddings stands outside any
\* try block, so the caller's promise rejects with the same error.
CpuRejects(c) ==
    /\ calls[c].pc = "cpu"
    /\ calls' = [calls EXCEPT ![c] =
                    [@ EXCEPT !.pc = "done", !.outcome = "rejected",
                              !.tried = Append(@, [device |-> "cpu", ok |-> FALSE])]]
    /\ UNCHANGED <<isInitialized, extractor, acquired, find, chunk, prep, manager>>

\* The continuation after `await this.initialize()`.
Resume(c) ==
    /\ calls[c].pc = "ready"
    /\ calls' = [calls EXCEPT ![c] =
                    IF @.kind = "generateEmbedding"
                    THEN [@ EXCEPT !.pc = "extract", !.started = @ + 1]
                    ELSE EnterLoop(@)]
    /\ UNCHANGED <<isInitialized, extractor, acquired, find, chunk, prep, manager>>

\* The backend call fulfils: Array.from(result.data) is returned.
ExtractorResolves(c) ==
    /\ calls[c].pc = "extract"
    /\ LET r == calls[c]
           cleanText == preprocessText(r.texts[Len(r.returns) + 1])
       IN  calls' = [calls EXCEPT ![c] = ReturnEmbedding(r, ModelEmbedding(cleanText), TRUE)]
    /\ UNCHANGED <<isInitialized, extractor, acquired, find, chunk, prep, manager>>

\* The backend call rejects: the catch block returns the dummy embedding.
ExtractorRejects(c) ==
    /\ calls[c].pc = "extract"
    /\ \E seed \in Seeds :
         calls' = [calls EXCEPT ![c] = ReturnEmbedding(calls[c], DummyEmbedding(seed), FALSE)]
    /\ UNCHANGED <<isInitialized, extractor, acquired, find, chunk, prep, manager>>

Next ==
    \E c \in CallIds :
        \/ CallInitialize(c)
        \/ CallGenerateEmbedding(c)
        \/ CallGenerateEmbeddings(c)
        \/ WebgpuResolves(c)
        \/ WebgpuRejects(c)
        \/ CpuResolves(c)
        \/ CpuRejects(c)
        \/ Resume(c)
        \/ ExtractorResolves(c)
        \/ ExtractorRejects(c)

Spec == Init /\ [][Next]_vars

\* ------------------------------------------------------ similarity search
\* A cosine similarity dot / (sqrt(norm1) * sqrt(norm2)) is kept exactly, as
\* its signed square: sq / den with sq = sign(dot) * dot^2, den = norm1 * norm2.
\* den = 0 is the NaN that 0 / 0 gives for a zero vector.
Sign(x) == IF x > 0 THEN 1 ELSE IF x < 0 THEN -1 ELSE 0

Rational(n, d) == [sq |-> Sign(n) * n * n, den |-> d * d]

IsNaN(x) == x.den = 0

\* a >= b on numbers; false when either is NaN.
GreaterEq(a, b) == ~IsNaN(a) /\ ~IsNaN(b) /\ a.sq * b.den >= b.sq * a.den

RECURSIVE DotProduct(_, _)
DotProduct(a, b) ==
    IF a = <<>> THEN 0 ELSE Head(a) * Head(b) + DotProduct(Tail(a), Tail(b))

\* Mutant: the dimension check is left out, the loop runs over embedding1.
calculateSimilarityUnchecked(embedding1, embedding2) ==
    LET n == Min(Len(embedding1), Len(embedding2))
        dotProduct == DotProduct(SubSeq(embedding1, 1, n), SubSeq(embedding2, 1, n))
        norm1 == DotProduct(embedding1, embedding1)
        norm2 == DotProduct(SubSeq(embedding2, 1, n), SubSeq(embedding2, 1, n))
    IN  [error |-> FALSE, sq |-> Sign(dotProduct) * dotProduct * dotProduct,
         den |-> norm1 * norm2]

calculateSimilarity(embedding1, embedding2) ==
    IF Len(embedding1) # Len(embedding2)
    THEN [error |-> TRUE, sq |-> 0, den |-> 0]
    ELSE LET dotProduct == DotProduct(embedding1, embedding2)
             norm1 == DotProduct(embedding1, embedding1)
             norm2 == DotProduct(embedding2, embedding2)
         IN  [error |-> FALSE, sq |-> Sign(dotProduct) * dotProduct * dotProduct,
              den |-> norm1 * norm2]

\* Mutant: (a, b) => a.similarity - b.similarity
CompareAscending(a, b) ==
    IF IsNaN(a.similarity) \/ IsNaN(b.similarity) THEN 0
    ELSE Sign(a.similarity.sq * b.similarity.den - b.similarity.sq * a.similarity.den)

\* (a, b) => b.similarity - a.similarity, by its sign; a NaN difference
\* counts as 0, as Array.prototype.sort takes it.
CompareDescending(a, b) ==
    IF IsNaN(a.similarity) \/ IsNaN(b.similarity) THEN 0
    ELSE Sign(b.similarity.sq * a.similarity.den - a.similarity.sq * b.similarity.den)

\* Array.prototype.sort with CompareDescending: a stable sort.
RECURSIVE InsertSorted(_, _)
InsertSorted(sorted, x) ==
    IF sorted = <<>> THEN <<x>>
    ELSE IF CompareDescending(Head(sorted), x) <= 0
         THEN <<Head(sorted)>> \o InsertSorted(Tail(sorted), x)
         ELSE <<x>> \o sorted

RECURSIVE SortDescending(_)
SortDescending(s) ==
    IF s = <<>> THEN <<>>
    ELSE InsertSorted(SortDescending(SubSeq(s, 1, Len(s) - 1)), s[Len(s)])

\* Mutant: the threshold filter is left out.
FilterNothing(similarities, threshold) == similarities

\* .filter(doc => doc.similarity >= threshold)
FilterByThreshold(similarities, threshold) ==
    LET Passes(doc) == GreaterEq(doc.similarity, threshold)
    IN  SelectSeq(similarities, Passes)

\* The documents with their similarity to the query; calculateSimilarity
\* throws out of the map when a dimension differs.
findSimilarDocuments(queryEmbedding, documentEmbeddings, threshold, limit) ==
    LET scores == [i \in DOMAIN documentEmbeddings |->
                      calculateSimilarity(queryEmbedding, documentEmbeddings[i].embedding)]
        similarities == [i \in DOMAIN documentEmbeddings |->
                            [id |-> documentEmbeddings[i].id,
                             embedding |-> documentEmbeddings[i].embedding,
                             metadata |-> documentEmbeddings[i].metadata,
                             similarity |-> [sq |-> scores[i].sq, den |-> scores[i].den]]]
    IN  IF \E i \in DOMAIN documentEmbeddings : scores[i].error
        THEN [threw |-> TRUE, value |-> <<>>]
        ELSE [threw |-> FALSE,
              value |-> JsSlice(SortDescending(FilterByThreshold(similarities, threshold)),
                                0, limit)]

\* Sampled inputs of findSimilarDocuments.
QueryPool == {<<1, 0>>, <<1, 1>>, <<0, 0>>}
EmbeddingPool == {<<1, 0>>, <<0, 1>>, <<1, 1>>, <<-1, 0>>, <<0, 0>>, <<1>>}
DefaultThreshold == Rational(1, 2)
Thresholds == {Rational(-1, 1), Rational(0, 1), DefaultThreshold, Rational(1, 1)}
Limits == (-MaxLimit..MaxLimit) \cup {DefaultLimit}
DocumentLists ==
    {[i \in DOMAIN es |-> [id |-> i, embedding |-> es[i], metadata |-> "meta"]] :
        es \in SeqsUpTo(EmbeddingPool, MaxDocs)}

InitFind ==
    /\ ServiceInit
    /\ chunk = NoChunk
    /\ prep = NoPrep
    /\ manager = NoManager
    /\ \E q \in QueryPool, docs \in DocumentLists, t \in Thresholds, l \in Limits :
         find = [state |-> "called", queryEmbedding |-> q, documentEmbeddings |-> docs,
                 threshold |-> t, limit |-> l, result |-> <<>>]

FindSimilarDocuments ==
    /\ find.state = "called"
    /\ LET r == findSimilarDocuments(find.queryEmbedding, find.documentEmbeddings,
                                     find.threshold, find.limit)
       IN  find' = [find EXCEPT !.state = IF r.threw THEN "threw" ELSE "returned",
                                !.result = r.value]
    /\ UNCHANGED <<isInitialized, extractor, calls, acquired, chunk, prep, manager>>

NextFind == FindSimilarDocuments

SpecFind == InitFind /\ [][NextFind]_vars

\* ================================================================= claims
WebgpuFailed == [device |-> "webgpu", ok |-> FALSE]
WebgpuOk == [device |-> "webgpu", ok |-> TRUE]
CpuFailed == [device |-> "cpu", ok |-> FALSE]
CpuOk == [device |-> "cpu", ok |-> TRUE]

\* Both acquisition attempts of the call's initialize failed.
BothFailed(r) == r.tried = <<WebgpuFailed, CpuFailed>>

\* The call never assigned the extractor.
NeverAcquired(c) == \A i \in DOMAIN acquired : acquired[i].by # c

\* v has exactly n components, each in [-1, 1].
InUnitRange(v, n) ==
    /\ DOMAIN v = 1..n
    /\ \A i \in 1..n : -Scale <= v[i] /\ v[i] <= Scale

\* The sampled dummy embeddings whose number[] has exactly 384 components,
\* each in [-1, 1].
DummiesInUnitRange == {seed \in Seeds : InUnitRange(FallbackTable[seed], 384)}

\* C1 as stated: a generateEmbedding call whose initialize failed on both
\* the accelerated and the CPU acquisition does not raise, it returns a
\* vector of exactly 384 components, each in [-1, 1].
C1_DummyOnInitFailure ==
    \A c \in CallIds :
        (calls[c].kind = "generateEmbedding" /\ BothFailed(calls[c]))
            => /\ calls[c].outcome = "resolved"
               /\ InUnitRange(Components(calls[c].value), 384)

\* C1 as amended: a generateEmbedding call whose initialize failed on both
\* acquisitions raises the initialization error: it is rejected, returns no
\* vector and makes no backend feature-extraction call.
C1_InitFailureRaises ==
    \A c \in CallIds :
        (calls[c].kind = "generateEmbedding" /\ BothFailed(calls[c]))
            => /\ calls[c].pc = "done"
               /\ calls[c].outcome = "rejected"
               /\ calls[c].started = 0
               /\ calls[c].returns = <<>>
               /\ calls[c].value = <<>>

C1_Witness ==
    \E c \in CallIds : calls[c].kind = "generateEmbedding" /\ BothFailed(calls[c])

\* C2 as stated: the backend is initialized exactly once: at most one
\* pipeline acquisition succeeds and assigns the extractor, and the extractor
\* is never assigned once isInitialized is true.
C2_InitializedOnce ==
    /\ Len(acquired) <= 1
    /\ \A i \in DOMAIN acquired : ~acquired[i].wasInitialized

\* C3: a call whose two acquisitions both failed fails with an error and
\* has assigned nothing; isInitialized is true only by a successful
\* acquisition, so the failure leaves it false; and every call made while the
\* backend is uninitialized starts acquisition with the accelerated backend.
C3_FailedInitRetryable ==
    /\ \A c \in CallIds :
           BothFailed(calls[c])
               => /\ calls[c].pc = "done"
                  /\ calls[c].outcome = "rejected"
                  /\ NeverAcquired(c)
    /\ isInitialized <=> acquired # <<>>
    /\ extractor = NullExtractor <=> acquired = <<>>
    /\ \A c \in CallIds :
           (calls[c].pc # "idle" /\ ~calls[c].seen.initialized)
               => \/ calls[c].pc = "webgpu" /\ calls[c].tried = <<>>
                  \/ calls[c].tried # <<>> /\ calls[c].tried[1].device = "webgpu"

\* A call failed on both acquisitions, and a call made after that failure,
\* with the backend still uninitialized, has tried the accelerated backend.
C3_Witness ==
    \E c, d \in CallIds :
        /\ BothFailed(calls[c])
        /\ calls[d].seen.failed /\ ~calls[d].seen.initialized
        /\ calls[d].tried # <<>> /\ calls[d].tried[1].device = "webgpu"

\* C4: in one initialize the accelerated acquisition comes first, the CPU
\* acquisition is attempted if and only if the accelerated one failed, and a
\* successful CPU acquisition completes the call with isInitialized true.
C4_AcceleratedThenCpu ==
    \A c \in CallIds :
        LET r == calls[c]
            cpuAttempted == r.pc = "cpu" \/ Len(r.tried) = 2
            webgpuFailed == r.tried # <<>> /\ r.tried[1] = WebgpuFailed
        IN  /\ r.tried \in {<<>>, <<WebgpuOk>>, <<WebgpuFailed>>,
                            <<WebgpuFailed, CpuOk>>, <<WebgpuFailed, CpuFailed>>}
            /\ r.pc = "webgpu" => r.tried = <<>>
            /\ cpuAttempted <=> webgpuFailed
            /\ r.pc = "cpu" => Len(r.tried) = 1
            /\ r.tried = <<WebgpuFailed, CpuOk>>
                   => /\ isInitialized
                      /\ r.outcome # "rejected"
                      /\ r.kind = "initialize" => r.pc = "done" /\ r.outcome = "resolved"

C4_Witness ==
    \E c \in CallIds :
        /\ calls[c].kind = "initialize"
        /\ calls[c].tried = <<WebgpuFailed, CpuOk>>
        /\ calls[c].pc = "done"

\* C5: an initialize call made once the backend is initialized returns
\* immediately: it starts no acquisition, assigns nothing, and isInitialized
\* and the extractor stay set.
C5_InitializeIdempotent ==
    \A c \in CallIds :
        (calls[c].kind = "initialize" /\ calls[c].seen.initialized)
            => /\ calls[c].pc = "done"
               /\ calls[c].outcome = "resolved"
               /\ calls[c].tried = <<>>
               /\ NeverAcquired(c)
               /\ isInitialized
               /\ extractor # NullExtractor

\* An initialize call completed successfully, and a later initialize call.
C5_Witness ==
    \E c, d \in CallIds :
        /\ calls[c].kind = "initialize" /\ calls[c].outcome = "resolved"
        /\ acquired # <<>> /\ acquired[1].by = c
        /\ calls[d].kind = "initialize" /\ calls[d].seen.initialized

\* C6: when the backend call of generateEmbedding fails, no error is
\* propagated; generateEmbedding returns a vector of exactly 384 components,
\* each in [-1, 1], and its promise resolves as for a real embedding.
C6_BackendFailureMasked ==
    \A c \in CallIds :
        LET r == calls[c]
        IN  /\ r.started > 0 => r.outcome # "rejected"
            /\ \A i \in DOMAIN r.returns :
                   ~r.returns[i].ok
                       => /\ r.returns[i].embedding.source = "dummy"
                          /\ r.returns[i].embedding.seed \in DummiesInUnitRange
            /\ (r.kind = "generateEmbedding" /\ r.returns # <<>>)
                   => /\ r.pc = "done"
                      /\ r.outcome = "resolved"
                      /\ r.value = r.returns[1].embedding

\* A generateEmbedding call made on an initialized backend whose backend
\* call failed.
C6_Witness ==
    \E c \in CallIds :
        /\ calls[c].kind = "generateEmbedding"
        /\ calls[c].seen.initialized
        /\ calls[c].returns # <<>> /\ ~calls[c].returns[1].ok

\* C7 as stated: at every point at most one backend feature-extraction call
\* is in flight, over all calls on the singleton.
C7_OneBackendCallInFlight == Cardinality(InFlight) <= 1

\* C7 as amended: each call has at most one backend call in flight, and
\* starts the backend call for element i+1 only after the one for element i
\* has returned.
C7_SequentialWithinCall ==
    \A c \in CallIds :
        LET r == calls[c]
        IN  /\ r.started <= Len(r.texts)
            /\ r.pc = "extract" => r.started = Len(r.returns) + 1
            /\ r.pc # "extract" => r.started = Len(r.returns)

\* A generateEmbeddings call suspended on the backend call for its second
\* element, the first having returned.
C7_Witness ==
    \E c \in CallIds :
        /\ calls[c].kind = "generateEmbeddings"
        /\ calls[c].pc = "extract"
        /\ calls[c].started = 2 /\ Len(calls[c].returns) = 1

\* C8: a generateEmbeddings call whose backend was acquired returns a
\* sequence as long as its input whose i-th element is what generateEmbedding
\* returned for texts[i], whether the backend calls succeeded or failed.
C8_BatchPreservesOrder ==
    \A c \in CallIds :
        LET r == calls[c]
        IN  (r.kind = "generateEmbeddings" /\ r.pc = "done" /\ ~BothFailed(r))
                => /\ r.outcome = "resolved"
                   /\ Len(r.value) = Len(r.texts)
                   /\ Len(r.returns) = Len(r.texts)
                   /\ \A i \in 1..Len(r.texts) :
                          /\ r.returns[i].text = r.texts[i]
                          /\ r.value[i] = r.returns[i].embedding

\* A generateEmbeddings call over two texts has returned, one backend call
\* having succeeded and the other failed.
C8_Witness ==
    \E c \in CallIds :
        /\ calls[c].kind = "generateEmbeddings"
        /\ calls[c].outcome = "resolved"
        /\ Len(calls[c].texts) = 2
        /\ calls[c].returns[1].ok # calls[c].returns[2].ok

\* The returned entries are in non-increasing order of similarity.
SortedDescending(result) ==
    \A i, j \in DOMAIN result :
        i < j => GreaterEq(result[i].similarity, result[j].similarity)

\* How many of the documents pass the threshold.
Passing ==
    Cardinality({i \in DOMAIN find.documentEmbeddings :
        LET score == calculateSimilarity(find.queryEmbedding,
                                         find.documentEmbeddings[i].embedding)
        IN  GreaterEq([sq |-> score.sq, den |-> score.den], find.threshold)})

\* C9 as stated: for all inputs, negative limits included,
\* findSimilarDocuments returns at most limit entries, in non-increasing
\* order of similarity.
C9_AtMostLimitSorted ==
    find.state = "returned"
        => /\ Len(find.result) <= find.limit
           /\ SortedDescending(find.result)

\* C9 as amended: the returned entries are in non-increasing order of
\* similarity; for a limit >= 0 they are at most limit; for a negative limit
\* slice(0, limit) drops the last -limit of the entries that pass the
\* threshold, so max(0, passing + limit) entries are returned.
C9_SortedAndSliced ==
    find.state = "returned"
        => /\ SortedDescending(find.result)
           /\ find.limit >= 0 => Len(find.result) <= find.limit
           /\ find.limit < 0 => Len(find.result) = Max(0, Passing + find.limit)

\* Three documents pass the threshold in an order that is not descending,
\* and a limit of 2 cuts the result to two entries of different similarity.
C9_Witness ==
    /\ find.state = "returned"
    /\ find.limit = 2 /\ Passing = 3 /\ Len(find.result) = 2
    /\ ~GreaterEq(find.result[2].similarity, find.result[1].similarity)
    /\ find.result[1].id > find.result[2].id

\* C10: every entry returned by findSimilarDocuments is one of the input
\* documents, carries calculateSimilarity(query, its embedding) as its
\* similarity, and that similarity is >= threshold.
C10_OnlyInputsAboveThreshold ==
    find.state = "returned"
        => \A k \in DOMAIN find.result :
               LET entry == find.result[k]
               IN  /\ \E i \in DOMAIN find.documentEmbeddings :
                          LET doc == find.documentEmbeddings[i]
                              score == calculateSimilarity(find.queryEmbedding, doc.embedding)
                          IN  /\ entry.id = doc.id
                              /\ entry.embedding = doc.embedding
                              /\ entry.metadata = doc.metadata
                              /\ ~score.error
                              /\ entry.similarity = [sq |-> score.sq, den |-> score.den]
                   /\ GreaterEq(entry.similarity, find.threshold)

\* A search returned one document and left out others below its threshold.
C10_Witness ==
    /\ find.state = "returned"
    /\ Len(find.documentEmbeddings) = 3
    /\ Passing = 1 /\ Len(find.result) = 1
    /\ find.result[1].id = 2

\* Some candidate document's embedding differs in length from the query.
DimensionMismatch ==
    \E i \in DOMAIN find.documentEmbeddings :
        Len(find.documentEmbeddings[i].embedding) # Len(find.queryEmbedding)

\* C11: calculateSimilarity fails exactly when the two lengths differ, and
\* findSimilarDocuments fails as a whole, with no partial result, exactly
\* when some candidate's embedding length differs from the query's.
C11_DimensionMismatchFails ==
    /\ find.state # "off"
           => \A i \in DOMAIN find.documentEmbeddings :
                  calculateSimilarity(find.queryEmbedding,
                                      find.documentEmbeddings[i].embedding).error
                      <=> Len(find.documentEmbeddings[i].embedding) # Len(find.queryEmbedding)
    /\ find.state = "threw" => DimensionMismatch /\ find.result = <<>>
    /\ find.state = "returned" => ~DimensionMismatch

\* A search over three documents failed although only the last one has an
\* embedding of another length.
C11_Witness ==
    /\ find.state = "threw"
    /\ Len(find.documentEmbeddings) = 3
    /\ \A i \in 1..2 :
           Len(find.documentEmbeddings[i].embedding) = Len(find.queryEmbedding)
    /\ Len(find.documentEmbeddings[3].embedding) # Len(find.queryEmbedding)

\* --------------------------------------------------------- preprocessText
\* Sampled inputs of preprocessText: every text of up to MaxChars characters
\* over a word character, two whitespace characters, an allowed punctuation
\* mark and a special character, and the text "  Hello   World!!  ".
PrepAlphabet == {"a", " ", "\t", "!", "#"}
HelloWorldText ==
    <<" ", " ", "H", "e", "l", "l", "o", " ", " ", " ", "W", "o", "r", "l", "d", "!", "!", " ", " ">>
PrepTexts == SeqsUpTo(PrepAlphabet, MaxChars) \cup {HelloWorldText}

InitPrep ==
    /\ ServiceInit
    /\ find = NoFind
    /\ chunk = NoChunk
    /\ manager = NoManager
    /\ \E t \in PrepTexts : prep = [state |-> "called", text |-> t, result |-> <<>>]

PreprocessText ==
    /\ prep.state = "called"
    /\ prep' = [prep EXCEPT !.state = "returned", !.result = preprocessText(prep.text)]
    /\ UNCHANGED <<isInitialized, extractor, calls, acquired, find, chunk, manager>>

NextPrep == PreprocessText

SpecPrep == InitPrep /\ [][NextPrep]_vars

\* C14 as stated: preprocessText("  Hello   World!!  ") returns
\* "Hello World!".
C14_HelloWorldOneMark ==
    (prep.state = "returned" /\ prep.text = HelloWorldText)
        => prep.result = <<"H", "e", "l", "l", "o", " ", "W", "o", "r", "l", "d", "!">>

\* C14 as amended: preprocessText("  Hello   World!!  ") returns
\* "Hello World!!": both exclamation marks are allowed characters and stay.
C14_HelloWorldBothMarks ==
    (prep.state = "returned" /\ prep.text = HelloWorldText)
        => prep.result =
               <<"H", "e", "l", "l", "o", " ", "W", "o", "r", "l", "d", "!", "!">>

C14_Witness == prep.state = "returned" /\ prep.text = HelloWorldText

\* C17 as stated: preprocessText is idempotent, its output is a fixed point.
C17_Idempotent ==
    prep.state = "returned" => preprocessText(prep.result) = prep.result

\* -------------------------------------------------------------- chunkText
\* text.split(/\s+/): the pieces between maximal runs of whitespace, an empty
\* piece before leading and after trailing whitespace included.
RECURSIVE SplitFrom(_, _, _, _)
SplitFrom(s, i, current, pieces) ==
    IF i > Len(s) THEN Append(pieces, current)
    ELSE IF IsSpace(s[i])
         THEN IF i > 1 /\ IsSpace(s[i - 1])
              THEN SplitFrom(s, i + 1, current, pieces)
              ELSE SplitFrom(s, i + 1, <<>>, Append(pieces, current))
         ELSE SplitFrom(s, i + 1, Append(current, s[i]), pieces)

SplitWhitespace(s) == SplitFrom(s, 1, <<>>, <<>>)

\* words.join(' ')
RECURSIVE JoinSpace(_)
JoinSpace(words) ==
    IF words = <<>> THEN <<>>
    ELSE IF Len(words) = 1 THEN words[1]
    ELSE words[1] \o <<" ">> \o JoinSpace(Tail(words))

\* Mutant: i += chunkSize
ChunkStepNoOverlap(chunkSize, overlap) == chunkSize

\* i += chunkSize - overlap
ChunkStep(chunkSize, overlap) == chunkSize - overlap

\* Sampled inputs of chunkText.
ChunkAlphabet == {"a", "b", " "}
FiveWordsText ==
    <<"w", "1", " ", "w", "2", " ", "w", "3", " ", "w", "4", " ", "w", "5">>
ChunkTexts == SeqsUpTo(ChunkAlphabet, MaxChars) \cup {FiveWordsText}

InitChunk ==
    /\ ServiceInit
    /\ find = NoFind
    /\ prep = NoPrep
    /\ manager = NoManager
    /\ \E t \in ChunkTexts, size \in 0..MaxChunkSize, over \in 0..MaxChunkSize :
         chunk = [state |-> "called", text |-> t, chunkSize |-> size, overlap |-> over,
                  words |-> <<>>, i |-> 0, chunks |-> <<>>]

\* const words = text.split(/\s+/); const chunks = []; let i = 0
ChunkTextCall ==
    /\ chunk.state = "called"
    /\ chunk' = [chunk EXCEPT !.state = "looping", !.words = SplitWhitespace(chunk.text)]
    /\ UNCHANGED <<isInitialized, extractor, calls, acquired, find, prep, manager>>

\* One iteration of the for loop.  A run is followed until it has pushed one
\* chunk more than there are words.
ChunkTextLoop ==
    /\ chunk.state = "looping"
    /\ chunk.i < Len(chunk.words)
    /\ Len(chunk.chunks) <= Len(chunk.words)
    /\ chunk' = [chunk EXCEPT
                    !.chunks = Append(@, JoinSpace(JsSlice(chunk.words, chunk.i,
                                                           chunk.i + chunk.chunkSize))),
                    !.i = @ + ChunkStep(chunk.chunkSize, chunk.overlap)]
    /\ UNCHANGED <<isInitialized, extractor, calls, acquired, find, prep, manager>>

\* The loop condition fails: return chunks.
ChunkTextReturn ==
    /\ chunk.state = "looping"
    /\ ~(chunk.i < Len(chunk.words))
    /\ chunk' = [chunk EXCEPT !.state = "returned"]
    /\ UNCHANGED <<isInitialized, extractor, calls, acquired, find, prep, manager>>

NextChunk == ChunkTextCall \/ ChunkTextLoop \/ ChunkTextReturn

SpecChunk == InitChunk /\ [][NextChunk]_vars

\* C12 as stated: chunkText terminates for every input, overlap >= chunkSize
\* included: every iteration of its loop moves the start index forward, which
\* the word count bounds.
C12_ChunkTextTerminates ==
    [][(chunk.state = "looping" /\ chunk'.state = "looping") => chunk'.i > chunk.i]_vars

Ceil(n, d) == (n + d - 1) \div d

\* C13: for 0 <= overlap < chunkSize chunkText returns ceil(n / step) chunks,
\* step = chunkSize - overlap and n the number of pieces the split gives, the
\* i-th (from 0) being the words from index i * step up to but excluding
\* min(n, i * step + chunkSize), joined by single spaces; and
\* chunkText("w1 w2 w3 w4 w5", 3, 1) is ["w1 w2 w3", "w3 w4 w5", "w5"].
C13_ChunksByStep ==
    LET n == Len(chunk.words)
        step == chunk.chunkSize - chunk.overlap
    IN  /\ (chunk.state = "returned" /\ chunk.overlap < chunk.chunkSize)
               => /\ Len(chunk.chunks) = Ceil(n, step)
                  /\ \A k \in 0..(Len(chunk.chunks) - 1) :
                         chunk.chunks[k + 1] =
                             JoinSpace(SubSeq(chunk.words, k * step + 1,
                                              Min(n, k * step + chunk.chunkSize)))
        /\ (chunk.state = "looping" /\ chunk.overlap < chunk.chunkSize)
               => Len(chunk.chunks) <= Ceil(n, step)
        /\ (chunk.state = "returned" /\ chunk.text = FiveWordsText
                /\ chunk.chunkSize = 3 /\ chunk.overlap = 1)
               => chunk.chunks =
                      <<<<"w", "1", " ", "w", "2", " ", "w", "3">>,
                        <<"w", "3", " ", "w", "4", " ", "w", "5">>,
                        <<"w", "5">>>>

C13_Witness ==
    /\ chunk.state = "returned"
    /\ chunk.text = FiveWordsText /\ chunk.chunkSize = 3 /\ chunk.overlap = 1
    /\ Len(chunk.chunks) = 3

\* -------------------------------------------------------- DocumentManager
\* src/src/components/DocumentManager.tsx with the documents state of its
\* parent (src/src/pages/Index.tsx).  manager.documents is the parent's
\* state, which every render hands down as the `documents` prop; a handler
\* run keeps the `documents` of the render in which it was started.  A
\* document is kept as its id and its embedding; manager.dim is the dimension
\* of the backend model, manager.initialized the service's isInitialized.
\* pc of a run: "idle", "reading" (awaiting readFileAsText), "embedding"
\* (awaiting EmbeddingService.generateEmbedding), "done".
RunIds == 1..MaxRuns

IdleRun ==
    [kind |-> "none", pc |-> "idle", documents |-> <<>>, files |-> 0,
     produced |-> <<>>, lazy |-> FALSE]

InitManager ==
    /\ ServiceInit
    /\ find = NoFind
    /\ chunk = NoChunk
    /\ prep = NoPrep
    /\ \E d \in {ModelDim, FallbackDim} :
         manager = [state |-> "on", dim |-> d, initialized |-> FALSE,
                    documents |-> <<>>, isProcessing |-> FALSE,
                    runs |-> [r \in RunIds |-> IdleRun],
                    nextId |-> 1, deleted |-> {}]

\* Mutant: the dummy vector is one component short.
EmbeddingLengthShortDummy(e) ==
    IF e.source = "dummy" THEN Len(FallbackTable[e.seed]) - 1 ELSE manager.dim

\* doc.embedding.length
EmbeddingLength(e) ==
    IF e.source = "dummy" THEN Len(FallbackTable[e.seed]) ELSE manager.dim

\* What generateEmbedding can resolve with: the backend's vector or the
\* dummy vector (of one seed: the manager never looks at the components).
ResolvedEmbeddings == {[source |-> "model"], DummyEmbedding(0)}

\* A run that has returned keeps nothing.
DoneRun(run) == [IdleRun EXCEPT !.kind = run.kind, !.pc = "done"]

\* Files selected by the uploads so far.
RECURSIVE FilesSelected(_)
FilesSelected(r) ==
    IF r = 0 THEN 0 ELSE manager.runs[r].files + FilesSelected(r - 1)

DocumentIds(documents) == {documents[i].id : i \in DOMAIN documents}

\* documents.filter(doc => doc.id !== id)
WithoutDocument(documents, id) ==
    LET Other(doc) == doc.id # id
    IN  SelectSeq(documents, Other)

\* const updatedDocuments = [...documents, ...newDocuments]
UploadedDocuments(run, produced) == run.documents \o produced

\* The run's handler is done with the item it awaited, `produced` holding
\* what it has pushed: the next item, or onDocumentsUpdate and the finally
\* block.
ContinueRun(r, produced) ==
    LET run == manager.runs[r]
        total == IF run.kind = "upload" THEN run.files ELSE Len(run.documents)
    IN  IF Len(produced) < total
        THEN [manager EXCEPT
                 !.runs[r].produced = produced,
                 !.runs[r].pc = IF run.kind = "upload" THEN "reading" ELSE "embedding",
                 !.runs[r].lazy = FALSE]
        ELSE [manager EXCEPT
                 !.runs[r] = DoneRun(run),
                 !.documents = IF run.kind = "upload"
                               THEN UploadedDocuments(run, produced)
                               ELSE produced,
                 !.isProcessing = FALSE]

\* handleFileUpload, to its first await.  The "Upload Documents" button is
\* disabled while isProcessing; "Upload Your First Document", shown while
\* there are no documents, is not.
HandleFileUpload(r) ==
    /\ manager.runs[r].pc = "idle"
    /\ \A q \in RunIds : q < r => manager.runs[q].pc # "idle"
    /\ ~manager.isProcessing \/ manager.documents = <<>>
    /\ \E n \in 1..(MaxFiles - FilesSelected(MaxRuns)) :
         manager' = [manager EXCEPT
                        !.isProcessing = TRUE,
                        !.runs[r] = [kind |-> "upload", pc |-> "reading",
                                     documents |-> manager.documents, files |-> n,
                                     produced |-> <<>>, lazy |-> FALSE]]
    /\ UNCHANGED <<isInitialized, extractor, calls, acquired, find, chunk, prep>>

\* readFileAsText resolves: generateEmbedding(content) is called.
ReadResolves(r) ==
    /\ manager.runs[r].pc = "reading"
    /\ manager' = [manager EXCEPT !.runs[r].pc = "embedding",
                                  !.runs[r].lazy = ~manager.initialized]
    /\ UNCHANGED <<isInitialized, extractor, calls, acquired, find, chunk, prep>>

\* readFileAsText rejects: the catch block, then the finally block.
ReadRejects(r) ==
    /\ manager.runs[r].pc = "reading"
    /\ manager' = [manager EXCEPT !.runs[r] = DoneRun(manager.runs[r]),
                                  !.isProcessing = FALSE]
    /\ UNCHANGED <<isInitialized, extractor, calls, acquired, find, chunk, prep>>

\* handleRegenerateEmbeddings, to its first await; its button is shown while
\* there are documents and disabled while isProcessing.
HandleRegenerateEmbeddings(r) ==
    /\ manager.runs[r].pc = "idle"
    /\ \A q \in RunIds : q < r => manager.runs[q].pc # "idle"
    /\ manager.documents # <<>>
    /\ ~manager.isProcessing
    /\ manager' = [manager EXCEPT
                      !.isProcessing = TRUE,
                      !.runs[r] = [kind |-> "regenerate", pc |-> "embedding",
                                   documents |-> manager.documents, files |-> 0,
                                   produced |-> <<>>, lazy |-> ~manager.initialized]]
    /\ UNCHANGED <<isInitialized, extractor, calls, acquired, find, chunk, prep>>

\* generateEmbedding resolves: the upload pushes a new document with a fresh
\* id, the regeneration the document with its new embedding.
EmbeddingResolves(r) ==
    /\ manager.runs[r].pc = "embedding"
    /\ \E e \in ResolvedEmbeddings :
         LET run == manager.runs[r]
             uploaded == run.kind = "upload"
             document ==
                 IF uploaded
                 THEN [id |-> manager.nextId, embedding |-> e]
                 ELSE [run.documents[Len(run.produced) + 1] EXCEPT !.embedding = e]
             next == ContinueRun(r, Append(run.produced, document))
         IN  manager' = [next EXCEPT
                            !.initialized = TRUE,
                            !.nextId = IF uploaded THEN @ + 1 ELSE @]
    /\ UNCHANGED <<isInitialized, extractor, calls, acquired, find, chunk, prep>>

\* generateEmbedding rejects, as it does when its lazy initialize fails: the
\* catch block, then the finally block.
EmbeddingRejects(r) ==
    /\ manager.runs[r].pc = "embedding"
    /\ manager.runs[r].lazy
    /\ manager' = [manager EXCEPT !.runs[r] = DoneRun(manager.runs[r]),
                                  !.isProcessing = FALSE]
    /\ UNCHANGED <<isInitialized, extractor, calls, acquired, find, chunk, prep>>

\* handleDeleteDocument(id), from the trash button of a listed document.
HandleDeleteDocument(id) ==
    /\ manager.state = "on"
    /\ id \in DocumentIds(manager.documents)
    /\ manager' = [manager EXCEPT
                      !.documents = WithoutDocument(manager.documents, id),
                      !.deleted = @ \cup {id}]
    /\ UNCHANGED <<isInitialized, extractor, calls, acquired, find, chunk, prep>>

NextManager ==
    \/ \E r \in RunIds :
           \/ HandleFileUpload(r)
           \/ ReadResolves(r)
           \/ ReadRejects(r)
           \/ HandleRegenerateEmbeddings(r)
           \/ EmbeddingResolves(r)
           \/ EmbeddingRejects(r)
    \/ \E id \in 1..MaxFiles : HandleDeleteDocument(id)

SpecManager == InitManager /\ [][NextManager]_vars

\* C15: a document removed by handleDeleteDocument(id) is gone for good: no
\* later state of the document collection holds a document with that id,
\* also when the delete came while an upload or a regeneration was awaiting
\* an embedding and that run then completed.
C15_DeletedStaysDeleted ==
    manager.state = "on" =>
        DocumentIds(manager.documents) \cap manager.deleted = {}

EmbeddingLengths == {EmbeddingLength(manager.documents[i].embedding) : i \in DOMAIN manager.documents}

\* C16 as stated: after any uploads and regenerations, each backend call
\* succeeding or falling back, all stored embeddings have the same length,
\* whatever the dimension of the model.
C16_SameLengthAnyDimension ==
    manager.state = "on" => Cardinality(EmbeddingLengths) <= 1

\* C16: after any uploads and regenerations, each backend call succeeding or
\* falling back, all stored embeddings have the same length provided the
\* dimension of the model is that of the dummy vector, 384.
C16_SameLengthAtFallbackDimension ==
    (manager.state = "on" /\ manager.dim = FallbackDim) =>
        Cardinality(EmbeddingLengths) <= 1

\* A model of dimension 384 and a collection holding both a backend vector
\* and a dummy vector.
C16_Witness ==
    /\ manager.state = "on"
    /\ manager.dim = FallbackDim
    /\ \E i, j \in DOMAIN manager.documents :
           /\ manager.documents[i].embedding.source = "model"
           /\ manager.documents[j].embedding.source = "dummy"

====
